---- MODULE Spec2Model ----
(***************************************************************************)
(* Model of commit.py: the helper that commits the current renders with    *)
(* the USD and luxtest revision information added to the commit message.   *)
(*                                                                         *)
(* Strings are sequences of chunks.  A whitespace character is always a    *)
(* chunk of its own (" " or "\n"); every other chunk is a run of           *)
(* non-whitespace characters.  Concatenation of strings is \o.             *)
(***************************************************************************)
EXTENDS Integers, Sequences, FiniteSets, TLC

VARIABLES
    argv,           \* sys.argv[1:], a sequence of strings
    USD_ROOT,       \* os.environ.get("USD_ROOT"): <<dir>> when set, <<>> when not
    head,           \* the HEAD commit of each companion repository, by directory
    pc,             \* position of the run inside main / commit_renders
    args,           \* argparse namespace: [message, extra_paths]
    idx,            \* index into REPO_NAMES of the repository being read
    commit_hash,    \* get_repo_info's local
    message_parts,  \* commit_renders' local
    commit_args,    \* commit_renders' local
    tempd,          \* name of the temporary directory (<<>> before it is made)
    exc,            \* the exception that is propagating, "none" when there is none
    calls,          \* every git invocation made so far: [cwd, args, st, rc]
    fs,             \* the files and directories below the system temp directory
    history,        \* commits added to the renders repository by this run
    exitCode        \* <<code>> once the process has exited, <<>> while it runs

vars == <<argv, USD_ROOT, head, pc, args, idx, commit_hash, message_parts,
          commit_args, tempd, exc, calls, fs, history, exitCode>>

-----------------------------------------------------------------------------
(* Bounds of the model *)

MaxArgv == 4

-----------------------------------------------------------------------------
(* Strings *)

SP == " "
NL == "\n"
Whitespace == {SP, NL}

RECURSIVE lstrip(_)
lstrip(s) ==
    IF s # <<>> /\ Head(s) \in Whitespace THEN lstrip(Tail(s)) ELSE s

RECURSIVE rstrip(_)
rstrip(s) ==
    IF s # <<>> /\ s[Len(s)] \in Whitespace
    THEN rstrip(SubSeq(s, 1, Len(s) - 1))
    ELSE s

\* str.strip()
strip(s) == rstrip(lstrip(s))

\* sep.join(parts)
RECURSIVE join(_, _)
join(sep, parts) ==
    IF parts = <<>> THEN <<>>
    ELSE IF Len(parts) = 1 THEN parts[1]
    ELSE parts[1] \o sep \o join(sep, Tail(parts))

\* variant: no message is ever taken as given
truthy_never(s) == FALSE

\* variant: a message of whitespace only counts as not given
truthy_stripped(s) == strip(s) # <<>>

\* bool(s) of a str
truthy(s) == s # <<>>

-----------------------------------------------------------------------------
(* Paths *)

SEP == "/"

RECURSIVE LastSep(_, _)
LastSep(p, i) ==
    IF i = 0 THEN 0 ELSE IF p[i] = SEP THEN i ELSE LastSep(p, i - 1)

\* os.path.dirname of an absolute path with no trailing separator
dirname(p) ==
    LET i == LastSep(p, Len(p)) IN
    IF i <= 1 THEN SubSeq(p, 1, i) ELSE SubSeq(p, 1, i - 1)

isabs(p) == p # <<>> /\ p[1] = SEP

\* os.path.join(a, b)
path_join(a, b) ==
    IF isabs(b) THEN b
    ELSE IF a = <<>> \/ a[Len(a)] = SEP THEN a \o b
    ELSE a \o <<SEP>> \o b

RECURSIVE path_join_all(_, _)
path_join_all(a, bs) ==
    IF bs = <<>> THEN a ELSE path_join_all(path_join(a, Head(bs)), Tail(bs))

-----------------------------------------------------------------------------
(* Constants of commit.py *)

THIS_DIR == <<SEP, "ws", SEP, "luxtest", SEP, "renders">>

RENDERS_REPO == THIS_DIR
LUXTEST_REPO == dirname(THIS_DIR)

DEFAULT_USD_REPO ==
    path_join_all(dirname(LUXTEST_REPO), << <<"usd-ci">>, <<"USD">> >>)
ALT_USD_REPO == <<SEP, "opt", SEP, "USD">>

\* os.environ.get("USD_ROOT", DEFAULT_USD_REPO)
USD_REPO == IF USD_ROOT = <<>> THEN DEFAULT_USD_REPO ELSE USD_ROOT[1]

\* variant: the dict lists luxtest first
REPO_NAMES_swapped == << <<"luxtest">>, <<"USD">> >>

\* the keys of REPO_NAMES_TO_DIRS, in the order the dict holds them
REPO_NAMES == << <<"USD">>, <<"luxtest">> >>

REPO_NAMES_TO_DIRS(name) ==
    IF name = <<"USD">> THEN USD_REPO ELSE LUXTEST_REPO

PLACEHOLDER == <<"<insert", SP, "custom", SP, "message", SP, "here>">>
TEMPLATE_NAME == <<"git_commit_template.txt">>
TEMPDIR_PREFIX == "luxtest_renders_commit"

-----------------------------------------------------------------------------
(* The command line *)

OPT_M == <<"-m">>
OPT_H == <<"-h">>
OPT_X == <<"-x">>      \* an option the parser does not know

\* the strings a command line is made of
Tokens == {OPT_M, OPT_H, OPT_X, <<>>, <<SP>>, <<"fix">>, <<SEP, "q">>}

\* argparse: does the string look like an option
IsOption(tok) == tok # <<>> /\ tok[1] \in {"-m", "-h", "-x"}

RECURSIVE BoundedSeq(_, _)
BoundedSeq(S, n) ==
    IF n = 0 THEN {<<>>}
    ELSE LET shorter == BoundedSeq(S, n - 1) IN
         shorter \cup {Append(s, x) : s \in {t \in shorter : Len(t) = n - 1}, x \in S}

\* ArgumentParser.parse_args of get_parser(), from position i on: the result is
\* [kind |-> "ok", message, extra_paths], or the SystemExit the parser raises
\* ([kind |-> "exit", code]).  closed: the positional was consumed by an
\* earlier run of arguments; extras: an unrecognized argument was seen.
RECURSIVE parse_from(_, _, _, _, _, _)
parse_from(av, i, message, paths, closed, extras) ==
    IF i > Len(av)
    THEN IF extras
         THEN [kind |-> "exit", code |-> 2]
         ELSE [kind |-> "ok", message |-> message, extra_paths |-> paths]
    ELSE LET tok == av[i]
             nowClosed == closed \/ paths # <<>> IN
         IF tok = OPT_H THEN [kind |-> "exit", code |-> 0]
         ELSE IF tok = OPT_M
         THEN IF i = Len(av) \/ IsOption(av[i + 1])
              THEN [kind |-> "exit", code |-> 2]
              ELSE parse_from(av, i + 2, av[i + 1], paths, nowClosed, extras)
         ELSE IF IsOption(tok)
         THEN parse_from(av, i + 1, message, paths, nowClosed, TRUE)
         ELSE IF closed
         THEN parse_from(av, i + 1, message, paths, closed, TRUE)
         ELSE parse_from(av, i + 1, message, Append(paths, tok), closed, extras)

\* get_parser().parse_args(argv); message defaults to ""
parse_args(av) == parse_from(av, 1, <<>>, <<>>, FALSE, FALSE)

-----------------------------------------------------------------------------
(* The companion repositories and the git tool *)

\* the commits a companion repository may be at; the two repositories are
\* different repositories, so they are never at the same commit
Commits ==
    { [hash |-> <<"a1f">>, subject |-> <<"up">>],
      [hash |-> <<"b2e">>, subject |-> <<"add", SP, "x">>] }

\* exit statuses of a git process
RetCodes == {0, 1, 128}

\* what os.getcwd() may return
Cwds == { <<SEP, "ws", SEP, "luxtest", SEP, "renders", SEP, "out">> }

\* the random part of a temporary directory's name
Suffixes == {"k1", "k2"}

\* tempfile.gettempdir()
TMP == <<SEP, "tmp">>

\* what git writes to stdout for the arguments a, run in directory d
git_output(d, a) ==
    IF a[1] = <<"rev-parse">> THEN head[d].hash \o <<NL>>
    ELSE IF a[1] = <<"log">> THEN head[d].subject \o <<NL>>
    ELSE <<>>

\* variant: check defaults to False
git_check_off == FALSE

\* git(): the default of its check parameter
git_check_default == TRUE

\* variant: exit status 1 is not taken as a failure
raises_only_above_one(check, rc) == check /\ rc > 1

\* subprocess.run(..., check=check): CalledProcessError on a non-zero exit
raises_called_process_error(check, rc) == check /\ rc # 0

\* get_git_hash: the arguments after "git"
rev_parse_args == << <<"rev-parse">>, <<"HEAD">> >>

\* git_commit_subject: the arguments after "git"
log_args == << <<"log">>, <<"-1">>, <<"--format=%s">>, <<"HEAD">> >>

\* variant: the hash is put before the subject
repo_info_swapped(repo_name, message_subject, hash) ==
    repo_name \o <<":", NL>> \o hash \o <<NL>> \o message_subject

\* get_repo_info: f"{repo_name}:\n{message_subject}\n{commit_hash}"
repo_info_text(repo_name, message_subject, hash) ==
    repo_name \o <<":", NL>> \o message_subject \o <<NL>> \o hash

\* commit_renders: "\n\n".join(message_parts) after message_parts.insert(0, first)
full_message(first, parts) == join(<<NL, NL>>, <<first>> \o parts)

\* variant: the extra paths are appended in reverse
base_commit_args_reversed(cwd, extra_paths) ==
    << <<"commit">>, <<"-a">> >>
        \o [i \in 1..Len(extra_paths) |->
                path_join(cwd, extra_paths[Len(extra_paths) + 1 - i])]

\* commit_renders: ["commit", "-a"] extended by the extra paths joined to cwd
base_commit_args(cwd, extra_paths) ==
    << <<"commit">>, <<"-a">> >>
        \o [i \in 1..Len(extra_paths) |-> path_join(cwd, extra_paths[i])]

\* commit_renders: commit_args[1:1] = ["-m", full_message]
with_message_args(cargs, msg) ==
    <<cargs[1]>> \o << <<"-m">>, msg >> \o Tail(cargs)

\* variant: commit.template is set to the directory, not the file
with_template_dir_args(cargs, template_path) ==
    << <<"-c">>, <<"commit.template=">> \o dirname(template_path) >> \o cargs

\* commit_renders: commit_args[0:0] = ["-c", f"commit.template={template_path}"]
with_template_args(cargs, template_path) ==
    << <<"-c">>, <<"commit.template=">> \o template_path >> \o cargs

\* tempfile.TemporaryDirectory(prefix=...): the name of the new directory
tempdir_name(suffix) == path_join(TMP, <<TEMPDIR_PREFIX, suffix>>)

\* os.path.join(tempd, "git_commit_template.txt")
template_path_of(d) == path_join(d, TEMPLATE_NAME)

IsPrefix(a, b) == Len(a) <= Len(b) /\ SubSeq(b, 1, Len(a)) = a

EmptyFS == [p \in {} |-> [kind |-> "dir", data |-> <<>>]]

\* variant: the directory is made with mkdtemp and never removed
cleanup_nothing(files, d) == files

\* TemporaryDirectory.__exit__: the directory and all below it are removed
cleanup_tempdir(files, d) ==
    [p \in {q \in DOMAIN files : ~IsPrefix(d, q)} |-> files[p]]

\* variant: the handler returns another status
main_result_status(e) == IF e = "none" THEN 0 ELSE 2

\* main: the value returned for the exception caught ("none": none was raised)
main_result(e) == IF e = "none" THEN 0 ELSE 1

-----------------------------------------------------------------------------
(* State *)

NoArgs == [kind |-> "none"]

Init ==
    /\ argv \in BoundedSeq(Tokens, MaxArgv)
    /\ USD_ROOT \in {<<>>, <<ALT_USD_REPO>>}
    /\ head \in {h \in [{USD_REPO, LUXTEST_REPO} -> Commits] :
                        h[USD_REPO].hash # h[LUXTEST_REPO].hash}
    /\ pc = "main"
    /\ args = NoArgs
    /\ idx = 1
    /\ commit_hash = <<>>
    /\ message_parts = <<>>
    /\ commit_args = <<>>
    /\ tempd = <<>>
    /\ exc = "none"
    /\ calls = <<>>
    /\ fs = EmptyFS
    /\ history = <<>>
    /\ exitCode = <<>>

\* git(): print the directory and the arguments, then subprocess.run starts
\* the process (st "running"), or cannot start it (st "nostart": OSError)
Run(repo_dir, a, st) ==
    calls' = Append(calls, [cwd |-> repo_dir, args |-> << <<"git">> >> \o a,
                            st |-> st, rc |-> -1])

\* the process started last has ended with status rc
Exited(rc) ==
    calls' = [calls EXCEPT ![Len(calls)].st = "exited", ![Len(calls)].rc = rc]

LastCall == calls[Len(calls)]

\* an exception leaves commit_renders; inside the with block the temporary
\* directory is cleaned up on the way
Raise(e, inWith) ==
    /\ exc' = e
    /\ pc' = IF inWith THEN "cleanup" ELSE "return"

-----------------------------------------------------------------------------
(* main and commit_renders, step by step *)

\* main: parser.parse_args(argv), outside the try block
ParseArgs ==
    /\ pc = "main"
    /\ LET r == parse_args(argv) IN
        \/ /\ r.kind = "exit"
           /\ exitCode' = <<r.code>>
           /\ pc' = "done"
           /\ UNCHANGED args
        \/ /\ r.kind = "ok"
           /\ args' = r
           /\ pc' = "rev_parse"
           /\ UNCHANGED exitCode
    /\ UNCHANGED <<argv, USD_ROOT, head, idx, commit_hash, message_parts,
                   commit_args, tempd, exc, calls, fs, history>>

\* get_repo_info -> get_git_hash: git rev-parse HEAD is started
GetGitHashRun ==
    /\ pc = "rev_parse"
    /\ \/ /\ Run(REPO_NAMES_TO_DIRS(REPO_NAMES[idx]), rev_parse_args, "running")
          /\ pc' = "rev_parse_wait"
          /\ UNCHANGED exc
       \/ /\ Run(REPO_NAMES_TO_DIRS(REPO_NAMES[idx]), rev_parse_args, "nostart")
          /\ Raise("OSError", FALSE)
    /\ UNCHANGED <<argv, USD_ROOT, head, args, idx, commit_hash, message_parts,
                   commit_args, tempd, fs, history, exitCode>>

\* get_git_hash: the process ends; its stripped output is the hash
GetGitHashExit ==
    /\ pc = "rev_parse_wait"
    /\ \E rc \in RetCodes :
        /\ Exited(rc)
        /\ IF raises_called_process_error(git_check_default, rc)
           THEN /\ Raise("CalledProcessError", FALSE)
                /\ UNCHANGED commit_hash
           ELSE /\ commit_hash' =
                      strip(IF rc = 0
                            THEN git_output(LastCall.cwd, rev_parse_args)
                            ELSE <<>>)
                /\ pc' = "log"
                /\ UNCHANGED exc
    /\ UNCHANGED <<argv, USD_ROOT, head, args, idx, message_parts,
                   commit_args, tempd, fs, history, exitCode>>

\* get_repo_info -> git_commit_subject: git log -1 --format=%s HEAD is started
GitCommitSubjectRun ==
    /\ pc = "log"
    /\ \/ /\ Run(REPO_NAMES_TO_DIRS(REPO_NAMES[idx]), log_args, "running")
          /\ pc' = "log_wait"
          /\ UNCHANGED exc
       \/ /\ Run(REPO_NAMES_TO_DIRS(REPO_NAMES[idx]), log_args, "nostart")
          /\ Raise("OSError", FALSE)
    /\ UNCHANGED <<argv, USD_ROOT, head, args, idx, commit_hash, message_parts,
                   commit_args, tempd, fs, history, exitCode>>

\* git_commit_subject ends; get_repo_info returns the block, and the list
\* comprehension of commit_renders goes on to the next repository
GitCommitSubjectExit ==
    /\ pc = "log_wait"
    /\ \E rc \in RetCodes :
        /\ Exited(rc)
        /\ IF raises_called_process_error(git_check_default, rc)
           THEN /\ Raise("CalledProcessError", FALSE)
                /\ UNCHANGED <<message_parts, idx>>
           ELSE LET message_subject ==
                        strip(IF rc = 0
                              THEN git_output(LastCall.cwd, log_args)
                              ELSE <<>>) IN
                /\ message_parts' =
                      Append(message_parts,
                             repo_info_text(REPO_NAMES[idx], message_subject,
                                            commit_hash))
                /\ IF idx < Len(REPO_NAMES)
                   THEN idx' = idx + 1 /\ pc' = "rev_parse"
                   ELSE idx' = idx /\ pc' = "build"
                /\ UNCHANGED exc
    /\ UNCHANGED <<argv, USD_ROOT, head, args, commit_hash,
                   commit_args, tempd, fs, history, exitCode>>

\* commit_renders: commit_args from os.getcwd() and the extra paths
BuildCommitArgs ==
    /\ pc = "build"
    /\ \/ \E cwd \in Cwds :
            /\ commit_args' = base_commit_args(cwd, args.extra_paths)
            /\ pc' = IF truthy(args.message) THEN "commit_direct" ELSE "mkdtemp"
            /\ UNCHANGED exc
       \/ \* os.getcwd() fails: the current directory is gone
          /\ Raise("OSError", FALSE)
          /\ UNCHANGED commit_args
    /\ UNCHANGED <<argv, USD_ROOT, head, args, idx, commit_hash, message_parts,
                   tempd, calls, fs, history, exitCode>>

\* commit_renders, a message was given: git commit -m <full message> -a ...
CommitDirectRun ==
    /\ pc = "commit_direct"
    /\ message_parts' = <<args.message>> \o message_parts
    /\ commit_args' = with_message_args(commit_args,
                                        full_message(args.message, message_parts))
    /\ \/ /\ Run(RENDERS_REPO, commit_args', "running")
          /\ pc' = "commit_direct_wait"
          /\ UNCHANGED exc
       \/ /\ Run(RENDERS_REPO, commit_args', "nostart")
          /\ Raise("OSError", FALSE)
    /\ UNCHANGED <<argv, USD_ROOT, head, args, idx, commit_hash,
                   tempd, fs, history, exitCode>>

\* the commit process ends; on success the renders repository has a new commit
CommitExit(inWith) ==
    \E rc \in RetCodes :
        /\ Exited(rc)
        /\ history' = IF rc = 0 THEN Append(history, LastCall.args) ELSE history
        /\ IF raises_called_process_error(git_check_default, rc)
           THEN Raise("CalledProcessError", inWith)
           ELSE /\ pc' = IF inWith THEN "cleanup" ELSE "return"
                /\ UNCHANGED exc

CommitDirectExit ==
    /\ pc = "commit_direct_wait"
    /\ CommitExit(FALSE)
    /\ UNCHANGED <<argv, USD_ROOT, head, args, idx, commit_hash, message_parts,
                   commit_args, tempd, fs, exitCode>>

\* commit_renders, no message: tempfile.TemporaryDirectory(...).__enter__
MakeTempDir ==
    /\ pc = "mkdtemp"
    /\ \/ \E suffix \in Suffixes :
            /\ tempd' = tempdir_name(suffix)
            /\ fs' = (tempd' :> [kind |-> "dir", data |-> <<>>]) @@ fs
            /\ pc' = "write"
            /\ UNCHANGED exc
       \/ \* the directory cannot be made
          /\ Raise("OSError", FALSE)
          /\ UNCHANGED <<tempd, fs>>
    /\ UNCHANGED <<argv, USD_ROOT, head, args, idx, commit_hash, message_parts,
                   commit_args, calls, history, exitCode>>

\* commit_renders: the template is written into the temporary directory
WriteTemplate ==
    /\ pc = "write"
    /\ message_parts' = <<PLACEHOLDER>> \o message_parts
    /\ LET template_path == template_path_of(tempd)
           text == full_message(PLACEHOLDER, message_parts) IN
        \/ /\ fs' = (template_path :> [kind |-> "file", data |-> text]) @@ fs
           /\ pc' = "commit_template"
           /\ UNCHANGED exc
        \/ \* open() fails: no file is made
           /\ Raise("OSError", TRUE)
           /\ UNCHANGED fs
        \/ \* write() or close() fails: the file is there, its content is not
           /\ fs' = (template_path :> [kind |-> "file", data |-> <<>>]) @@ fs
           /\ Raise("OSError", TRUE)
    /\ UNCHANGED <<argv, USD_ROOT, head, args, idx, commit_hash,
                   commit_args, tempd, calls, history, exitCode>>

\* commit_renders: git -c commit.template=<path> commit -a ... is started
CommitTemplateRun ==
    /\ pc = "commit_template"
    /\ commit_args' = with_template_args(commit_args, template_path_of(tempd))
    /\ \/ /\ Run(RENDERS_REPO, commit_args', "running")
          /\ pc' = "commit_template_wait"
          /\ UNCHANGED exc
       \/ /\ Run(RENDERS_REPO, commit_args', "nostart")
          /\ Raise("OSError", TRUE)
    /\ UNCHANGED <<argv, USD_ROOT, head, args, idx, commit_hash, message_parts,
                   tempd, fs, history, exitCode>>

CommitTemplateExit ==
    /\ pc = "commit_template_wait"
    /\ CommitExit(TRUE)
    /\ UNCHANGED <<argv, USD_ROOT, head, args, idx, commit_hash, message_parts,
                   commit_args, tempd, fs, exitCode>>

\* the with block is left, normally or by an exception
Cleanup ==
    /\ pc = "cleanup"
    /\ fs' = cleanup_tempdir(fs, tempd)
    /\ pc' = "return"
    /\ UNCHANGED <<argv, USD_ROOT, head, args, idx, commit_hash, message_parts,
                   commit_args, tempd, exc, calls, history, exitCode>>

\* main: the try block is left; sys.exit(main())
MainReturn ==
    /\ pc = "return"
    /\ exitCode' = <<main_result(exc)>>
    /\ pc' = "done"
    /\ UNCHANGED <<argv, USD_ROOT, head, args, idx, commit_hash, message_parts,
                   commit_args, tempd, exc, calls, fs, history>>

Next ==
    \/ ParseArgs
    \/ GetGitHashRun
    \/ GetGitHashExit
    \/ GitCommitSubjectRun
    \/ GitCommitSubjectExit
    \/ BuildCommitArgs
    \/ CommitDirectRun
    \/ CommitDirectExit
    \/ MakeTempDir
    \/ WriteTemplate
    \/ CommitTemplateRun
    \/ CommitTemplateExit
    \/ Cleanup
    \/ MainReturn

Spec == Init /\ [][Next]_vars

-----------------------------------------------------------------------------
(* Vocabulary of the properties *)

CallIdx == 1..Len(calls)

\* the invocation did not end with exit status 0
CallFailed(c) == c.st = "nostart" \/ (c.st = "exited" /\ c.rc # 0)
CallSucceeded(c) == c.st = "exited" /\ c.rc = 0

\* the invocation is a git commit (all others are rev-parse and log)
IsCommitCall(c) == \E k \in 1..Len(c.args) : c.args[k] = <<"commit">>
IsReadCall(c) == ~IsCommitCall(c)

CommitCalls == {i \in CallIdx : IsCommitCall(calls[i])}

\* the arguments of an invocation that set commit.template
TemplateSettings(c) ==
    {k \in 1..Len(c.args) : IsPrefix(<<"commit.template=">>, c.args[k])}

Parsed == args.kind = "ok"
NoMessage == Parsed /\ args.message = <<>>
HasMessage == Parsed /\ args.message # <<>>

IsSuffix(a, b) ==
    Len(a) <= Len(b) /\ SubSeq(b, Len(b) - Len(a) + 1, Len(b)) = a

\* the block of the i-th configured repository, from the repository's state
BlockOf(i) ==
    LET d == IF i = 1 THEN USD_REPO ELSE LUXTEST_REPO IN
    REPO_NAMES[i] \o <<":", NL>> \o head[d].subject \o <<NL>> \o head[d].hash

BlankLine == <<NL, NL>>

\* the message assembled around the given first part
Assembled(first) == first \o BlankLine \o BlockOf(1) \o BlankLine \o BlockOf(2)

\* the file the run writes its template to
TemplateFile == tempd \o <<SEP>> \o TEMPLATE_NAME

TemplateExists == TemplateFile \in DOMAIN fs /\ fs[TemplateFile].kind = "file"

\* the four reads, in the order the code makes them
ReadPlan ==
    << [cwd |-> USD_REPO,     args |-> << <<"git">>, <<"rev-parse">>, <<"HEAD">> >>],
       [cwd |-> USD_REPO,     args |-> << <<"git">>, <<"log">>, <<"-1">>,
                                          <<"--format=%s">>, <<"HEAD">> >>],
       [cwd |-> LUXTEST_REPO, args |-> << <<"git">>, <<"rev-parse">>, <<"HEAD">> >>],
       [cwd |-> LUXTEST_REPO, args |-> << <<"git">>, <<"log">>, <<"-1">>,
                                          <<"--format=%s">>, <<"HEAD">> >>] >>

ReadsDone ==
    /\ Len(calls) >= 4
    /\ \A i \in 1..4 :
        /\ calls[i].cwd = ReadPlan[i].cwd
        /\ calls[i].args = ReadPlan[i].args
        /\ CallSucceeded(calls[i])

\* the value given to the last -m of the command line, <<"absent">> without -m
RECURSIVE LastMessage(_, _)
LastMessage(av, i) ==
    IF i = 0 THEN <<"absent">>
    ELSE IF i < Len(av) /\ av[i] = OPT_M
    THEN <<"given", av[i + 1]>>
    ELSE LastMessage(av, i - 1)

-----------------------------------------------------------------------------
(* C1: an invocation that does not exit with status 0 makes main return 1, *)
(* and main returns 0 only when every invocation it made exited with 0.    *)

Thm_C1 ==
    /\ (\E i \in CallIdx : CallFailed(calls[i])) =>
            /\ exitCode \in {<<>>, <<1>>}
            /\ pc = "done" => exitCode = <<1>>
    /\ exitCode = <<0>> => \A i \in CallIdx : CallSucceeded(calls[i])

\* the commit, started from the template path, exits with 128 and main returns 1
Wit_C1 ==
    /\ pc = "done"
    /\ Len(calls) = 5
    /\ calls[5].st = "exited" /\ calls[5].rc = 128
    /\ exitCode = <<1>>

(* C2: without a message, once commit_renders has ended the temporary      *)
(* directory and the template file are gone, after a successful commit, a  *)
(* failed commit and a failed write alike, and the failure still surfaces  *)
(* as exit code 1.                                                         *)

Thm_C2 ==
    (NoMessage /\ pc \in {"return", "done"}) =>
        /\ DOMAIN fs = {}
        /\ (\E i \in CallIdx : CallFailed(calls[i])) => exc # "none"
        /\ (tempd # <<>> /\ CommitCalls = {}) => exc # "none"
        /\ (pc = "done" /\ exc # "none") => exitCode = <<1>>

\* the temporary directory was made, the commit failed, and nothing is left
Wit_C2 ==
    /\ NoMessage /\ pc = "done"
    /\ tempd # <<>>
    /\ \E i \in CommitCalls : calls[i].st = "exited" /\ calls[i].rc = 1
    /\ DOMAIN fs = {}
    /\ exitCode = <<1>>

(* C3: without a message, while the commit is about to be invoked or is    *)
(* running, the template file exists, holds the placeholder followed by    *)
(* the repo info blocks, and is the file the invocation names as           *)
(* commit.template; it is still there when the invocation has returned and *)
(* the with block has not been left yet.                                   *)

Thm_C3 ==
    /\ pc \in {"commit_template", "commit_template_wait"} =>
            /\ NoMessage
            /\ TemplateExists
            /\ fs[TemplateFile].data = Assembled(PLACEHOLDER)
    /\ \A i \in CommitCalls :
            (NoMessage /\ (calls[i].st = "running" \/ pc = "cleanup")) =>
                /\ TemplateExists
                /\ fs[TemplateFile].data = Assembled(PLACEHOLDER)
                /\ calls[i].args[2] = <<"-c">>
                /\ calls[i].args[3] = <<"commit.template=">> \o TemplateFile
                /\ TemplateSettings(calls[i]) = {3}

\* the commit process is running with the template in place
Wit_C3 ==
    /\ pc = "commit_template_wait"
    /\ calls[Len(calls)].st = "running"
    /\ TemplateExists
    /\ tempd = <<SEP, "tmp", SEP, "luxtest_renders_commit", "k2">>

(* C4: with a non-empty message no temporary directory or template file    *)
(* exists in any state of the run, and no invocation sets commit.template. *)

Thm_C4 ==
    HasMessage =>
        /\ DOMAIN fs = {}
        /\ tempd = <<>>
        /\ \A i \in CallIdx :
            /\ TemplateSettings(calls[i]) = {}
            /\ \A k \in 1..Len(calls[i].args) : calls[i].args[k] # <<"-c">>

\* a run with a message has committed and returned 0
Wit_C4 ==
    /\ HasMessage /\ pc = "done"
    /\ history # <<>>
    /\ exitCode = <<0>>

(* C5: the assembled message (the -m text or the template content) is the  *)
(* user message or the placeholder, then the USD block, then the luxtest   *)
(* block, joined by blank lines; each block is the repository's name, its  *)
(* subject line and its hash.                                              *)

Thm_C5 ==
    /\ \A i \in CommitCalls :
            HasMessage =>
                /\ calls[i].args[3] = <<"-m">>
                /\ calls[i].args[4] = Assembled(args.message)
    /\ \A p \in DOMAIN fs :
            (fs[p].kind = "file" /\ pc # "cleanup") =>
                fs[p].data = Assembled(PLACEHOLDER)
    /\ pc \in {"build", "commit_direct", "mkdtemp", "write"} =>
            message_parts = <<BlockOf(1), BlockOf(2)>>

\* a direct commit is made while the two repositories are at different commits
Wit_C5 ==
    /\ HasMessage
    /\ CommitCalls # {}
    /\ USD_ROOT # <<>>
    /\ head[USD_REPO].subject = <<"add", SP, "x">>

(* C6, as stated: whatever step fails, argument parsing included, the exit *)
(* code is 1, and it is 0 when nothing failed.                             *)

RunFailed ==
    \/ (parse_args(argv).kind = "exit" /\ parse_args(argv).code # 0)
    \/ exc # "none"

Orig_C6 == pc = "done" => exitCode = <<IF RunFailed THEN 1 ELSE 0>>

(* C6, amended: when the command line parses, the exit code is 1 if any    *)
(* later step raised and 0 exactly when the commit was made; a command     *)
(* line the parser rejects ends the process with exit code 2, and -h ends  *)
(* it with 0, in both cases before any tool invocation.                    *)

Thm_C6 ==
    pc = "done" =>
        /\ Parsed =>
            /\ exitCode \in {<<0>>, <<1>>}
            /\ exitCode = <<0>> <=> exc = "none"
            /\ exitCode = <<0>> <=>
                    (CommitCalls # {} /\ \A i \in CallIdx : CallSucceeded(calls[i]))
            /\ exitCode = <<0>> <=> history # <<>>
        /\ ~Parsed =>
            /\ exitCode \in {<<0>>, <<2>>}
            /\ exitCode = <<0>> => (\E k \in 1..Len(argv) : argv[k] = OPT_H)
            /\ calls = <<>> /\ history = <<>> /\ DOMAIN fs = {}

\* writing the template failed and the process exited with 1
Wit_C6 ==
    /\ pc = "done"
    /\ Parsed
    /\ tempd # <<>> /\ calls # <<>> /\ CommitCalls = {}
    /\ exc = "OSError"
    /\ exitCode = <<1>>

(* C7: the single commit invocation carries -a and every extra path, in    *)
(* the order given and with the same count; with a message it carries -m   *)
(* followed by the full assembled message, without one it carries no -m.   *)

Thm_C7 ==
    /\ Cardinality(CommitCalls) <= 1
    /\ \A i \in CommitCalls :
        LET a == calls[i].args
            n == Len(args.extra_paths)
            fixed == Len(a) - n IN
        /\ a[1] = <<"git">>
        /\ fixed = 5
        /\ a[fixed] = <<"-a">>
        /\ Cardinality({k \in 1..Len(a) : a[k] = <<"-a">>}) = 1
        /\ \A k \in 1..n : IsSuffix(args.extra_paths[k], a[fixed + k])
        /\ \A k \in 1..n : isabs(a[fixed + k])
        /\ HasMessage =>
            /\ {k \in 1..Len(a) : a[k] = <<"-m">>} = {3}
            /\ a[2] = <<"commit">>
            /\ a[4] = Assembled(args.message)
        /\ NoMessage =>
            /\ {k \in 1..Len(a) : a[k] = <<"-m">>} = {}
            /\ a[4] = <<"commit">>

\* a direct commit with two extra paths, a relative and an absolute one
Wit_C7 ==
    /\ HasMessage
    /\ args.extra_paths = << <<"fix">>, <<SEP, "q">> >>
    /\ \E i \in CommitCalls :
        /\ Len(calls[i].args) = 7
        /\ calls[i].args[7] = <<SEP, "q">>

(* C8: no invocation is retried: at most five invocations are made (two    *)
(* reads per repository, one commit), each at most once, and after an      *)
(* invocation that failed no further invocation is made.                   *)

Thm_C8 ==
    /\ Len(calls) <= 5
    /\ \A i, j \in CallIdx :
        (i # j) => (calls[i].cwd # calls[j].cwd \/ calls[i].args # calls[j].args)
    /\ Cardinality(CommitCalls) <= 1
    /\ \A i \in CallIdx :
        /\ i <= 4 => (calls[i].cwd = ReadPlan[i].cwd /\ calls[i].args = ReadPlan[i].args)
        /\ i = 5 => IsCommitCall(calls[i])
        /\ i < Len(calls) => CallSucceeded(calls[i])
    /\ (\E i \in CallIdx : CallFailed(calls[i])) =>
            pc \in {"cleanup", "return", "done"}

\* the fourth invocation (luxtest's log) failed and the run ended there
Wit_C8 ==
    /\ pc = "done"
    /\ Len(calls) = 4
    /\ calls[4].st = "exited" /\ calls[4].rc = 1

(* C9: the reads of USD and then luxtest, hash before subject, have all    *)
(* completed before a temporary directory exists and before the commit is  *)
(* invoked; if a read fails no temporary file was created and the renders  *)
(* repository has no new commit.                                           *)

Thm_C9 ==
    /\ (tempd # <<>> \/ DOMAIN fs # {} \/ CommitCalls # {} \/ history # <<>>) =>
            /\ ReadsDone
            /\ \A i \in CommitCalls : i = 5
    /\ (\E i \in CallIdx : IsReadCall(calls[i]) /\ CallFailed(calls[i])) =>
            /\ tempd = <<>>
            /\ DOMAIN fs = {}
            /\ CommitCalls = {}
            /\ history = <<>>

\* the read of luxtest's hash failed after USD's two reads succeeded
Wit_C9 ==
    /\ pc = "done"
    /\ Len(calls) = 3
    /\ CallSucceeded(calls[1]) /\ CallSucceeded(calls[2])
    /\ CallFailed(calls[3])
    /\ tempd = <<>> /\ history = <<>>

(* C10: the direct commit is chosen exactly when the message is not the    *)
(* empty string: no -m and -m with an empty string both take the template  *)
(* path; every other message, one of whitespace only included, takes the   *)
(* direct path and is the first part of the commit message, unchanged.     *)

TemplatePath ==
    pc \in {"mkdtemp", "write", "commit_template", "commit_template_wait", "cleanup"}
DirectPath == pc \in {"commit_direct", "commit_direct_wait"}

Thm_C10 ==
    LET m == LastMessage(argv, Len(argv)) IN
    /\ TemplatePath => (Parsed /\ m \in {<<"absent">>, <<"given", <<>> >>})
    /\ DirectPath => (Parsed /\ m \notin {<<"absent">>, <<"given", <<>> >>})
    /\ (Parsed /\ CommitCalls # {}) =>
        \A i \in CommitCalls :
            IF m \in {<<"absent">>, <<"given", <<>> >>}
            THEN /\ TemplateSettings(calls[i]) # {}
                 /\ \A k \in 1..Len(calls[i].args) : calls[i].args[k] # <<"-m">>
            ELSE /\ TemplateSettings(calls[i]) = {}
                 /\ calls[i].args[3] = <<"-m">>
                 /\ IsPrefix(m[2] \o BlankLine \o <<"USD">>, calls[i].args[4])

\* a message of one space is committed directly
Wit_C10 ==
    /\ argv = <<OPT_M, <<SP>> >>
    /\ \E i \in CommitCalls :
        /\ calls[i].args[3] = <<"-m">>
        /\ IsPrefix(<<SP, NL, NL>>, calls[i].args[4])

====
